---- MODULE Spec2Model ----
(***************************************************************************)
(* MareArts-VideoTools.                                                    *)
(*                                                                         *)
(*   16_9_video_gen.py   convert_to_16_9: pads every frame of a video with *)
(*                       black bars up to a 16:9 canvas.                   *)
(*   download_youtube.py download_video: fetches a video with yt-dlp.      *)
(*                                                                         *)
(* Three specifications share the module:                                  *)
(*   Spec     one run of convert_to_16_9, frames as pixel grids;           *)
(*   SpecDim  the dimension rule of convert_to_16_9 as a pure function;    *)
(*   SpecDl   one call of download_video.                                  *)
(*                                                                         *)
(* Arithmetic.  The code computes width / height, 16 / 9, height * (16/9)  *)
(* and width / (16/9) in IEEE-754 doubles and truncates with int().  For   *)
(* every width and height in 1..200000 the double results satisfy          *)
(*      width / height < 16 / 9      <=>  9 * width < 16 * height          *)
(*      int(height * (16 / 9))        =   (16 * height) \div 9             *)
(*      int(width / (16 / 9))         =   (9 * width) \div 16              *)
(* (enumerated with the interpreter), so the model uses the integer forms. *)
(***************************************************************************)
EXTENDS Integers, Sequences, FiniteSets, TLC

----------------------------------------------------------------------------
(* Bounds of the model *)

\* widest and tallest source whose frames are modelled pixel by pixel
MaxW == 16
MaxH == 9
\* longest source of a pixel-level run, and the frame patterns it draws from
MaxFrames == 2
MaxPattern == 1
\* how far past a progress report a long run goes
LongExtra == 1
\* exactly-16:9 sources 16k x 9k are modelled pixel by pixel for k up to MaxK
MaxK == 2
\* largest width and height the dimension rule is enumerated over
MaxDim == 40
\* most formats an extracted video lists
MaxFormats == 2

(* Program constants *)

\* processed_frames % 100 == 0
ProgressInterval == 100
\* target_ratio = 16 / 9
RatioNum == 16
RatioDen == 9
\* np.zeros(..., dtype=np.uint8): one zero per channel
Black == <<0, 0, 0>>

\* Python's None, where a string, a number or a dictionary is expected
None == "None"
NoneInt == -1
NoneDict == [none |-> TRUE]

----------------------------------------------------------------------------
(* convert_to_16_9: the dimension rule *)

\* current_ratio < target_ratio
IsNarrow(w, h) == RatioDen * w < RatioNum * h

\* a plausible slip: the ratio applied the wrong way up
NarrowWidthInverse(h) == (RatioDen * h) \div RatioNum

\* int(height * target_ratio)
NarrowWidth(h) == (RatioNum * h) \div RatioDen

\* int(width / target_ratio)
WideHeight(w) == (RatioDen * w) \div RatioNum

\* Python's // on integers: floor division
FloorDiv2(n) == n \div 2

\* a plausible slip: rounding where the code truncates
DimensionsRounded(w, h) ==
    IF IsNarrow(w, h)
    THEN LET nw == (2 * RatioNum * h + RatioDen) \div (2 * RatioDen)
         IN  [new_width |-> nw, new_height |-> h,
              h_padding |-> FloorDiv2(nw - w), v_padding |-> 0]
    ELSE LET nh == (2 * RatioDen * w + RatioNum) \div (2 * RatioNum)
         IN  [new_width |-> w, new_height |-> nh,
              h_padding |-> 0, v_padding |-> FloorDiv2(nh - h)]

\* a plausible slip: the branches taken the wrong way round
DimensionsSwapped(w, h) ==
    IF ~IsNarrow(w, h)
    THEN LET nw == NarrowWidth(h)
         IN  [new_width |-> nw, new_height |-> h,
              h_padding |-> FloorDiv2(nw - w), v_padding |-> 0]
    ELSE LET nh == WideHeight(w)
         IN  [new_width |-> w, new_height |-> nh,
              h_padding |-> 0, v_padding |-> FloorDiv2(nh - h)]

\* a plausible slip: the extended axis rounded up to an even size and one
\* more macroblock row or column, as encoders like
DimensionsEven(w, h) ==
    IF IsNarrow(w, h)
    THEN LET nw == 2 * ((NarrowWidth(h) + 2) \div 2)
         IN  [new_width |-> nw, new_height |-> h,
              h_padding |-> FloorDiv2(nw - w), v_padding |-> 0]
    ELSE LET nh == 2 * ((WideHeight(w) + 2) \div 2)
         IN  [new_width |-> w, new_height |-> nh,
              h_padding |-> 0, v_padding |-> FloorDiv2(nh - h)]

\* lines 27-42
Dimensions(w, h) ==
    IF IsNarrow(w, h)
    THEN LET nw == NarrowWidth(h)
         IN  [new_width |-> nw, new_height |-> h,
              h_padding |-> FloorDiv2(nw - w), v_padding |-> 0]
    ELSE LET nh == WideHeight(w)
         IN  [new_width |-> w, new_height |-> nh,
              h_padding |-> 0, v_padding |-> FloorDiv2(nh - h)]

----------------------------------------------------------------------------
(* convert_to_16_9: frames and compositing *)

\* the frame the decoder yields for pattern p: height rows of width pixels of
\* three 8-bit channels; patterns contain black pixels as well as others
FramePixels(p, w, h) ==
    [r \in 0..(h - 1) |->
        [c \in 0..(w - 1) |->
            <<(p * (r + c)) % 256, (p + r * c) % 2, (r + 2 * c + p) % 3>>]]

\* np.zeros((new_height, new_width, 3), dtype=np.uint8)
Zeros(nh, nw) == [r \in 0..(nh - 1) |-> [c \in 0..(nw - 1) |-> Black]]

\* the indices a Python slice start:stop selects on an axis of length n
SliceBound(i, n) == IF i < 0 THEN (IF i + n < 0 THEN 0 ELSE i + n)
                    ELSE IF i > n THEN n ELSE i
SliceLo(start, n) == SliceBound(start, n)
SliceHi(stop, n) == SliceBound(stop, n)
SliceLen(start, stop, n) ==
    IF SliceHi(stop, n) > SliceLo(start, n)
    THEN SliceHi(stop, n) - SliceLo(start, n) ELSE 0

\* canvas[v:v+height, h:h+width] = frame is accepted by numpy when the
\* selected region has the frame's shape (a one-row or one-column frame also
\* broadcasts over an empty selection); otherwise it raises ValueError
AxisFits(len, n) == len = n \/ (n = 1 /\ len = 0)
Assignable(nh, nw, vp, hp, h, w) ==
    /\ AxisFits(SliceLen(vp, vp + h, nh), h)
    /\ AxisFits(SliceLen(hp, hp + w, nw), w)

\* a plausible slip: the frame pasted at the canvas origin
CompositeAtOrigin(frame, nh, nw, vp, hp, h, w) ==
    [r \in 0..(nh - 1) |->
        [c \in 0..(nw - 1) |->
            IF r < h /\ c < w THEN frame[r][c] ELSE Black]]

\* lines 62-65: a fresh black canvas with the frame copied into the region
Composite(frame, nh, nw, vp, hp, h, w) ==
    LET r0 == SliceLo(vp, nh)
        c0 == SliceLo(hp, nw)
        r1 == SliceHi(vp + h, nh)
        c1 == SliceHi(hp + w, nw)
    IN  [r \in 0..(nh - 1) |->
            [c \in 0..(nw - 1) |->
                IF r >= r0 /\ r < r1 /\ c >= c0 /\ c < c1
                THEN frame[r - r0][c - c0]
                ELSE Zeros(nh, nw)[r][c]]]

\* a plausible slip: every frame handed to the sink twice
SinkWriteTwice(sink, canvas) == sink \o <<canvas, canvas>>

\* line 68: out.write(canvas)
SinkWrite(sink, canvas) == Append(sink, canvas)

----------------------------------------------------------------------------
(* convert_to_16_9: state *)

VARIABLES
    pc,               \* position in convert_to_16_9
    openable,         \* whether cv2.VideoCapture can open input_video
    srcWidth,         \* CAP_PROP_FRAME_WIDTH of the source
    srcHeight,        \* CAP_PROP_FRAME_HEIGHT of the source
    srcFps,           \* CAP_PROP_FPS of the source
    srcCount,         \* CAP_PROP_FRAME_COUNT as the container reports it
    source,           \* the frames the source really yields, as patterns
    pos,              \* how many of them cap.read() has handed out
    capReleases,      \* calls of cap.release()
    outOpened,        \* whether cv2.VideoWriter has been constructed
    outDeclared,      \* <<width, height, fps>> declared to the writer
    outReleases,      \* calls of out.release()
    written,          \* the canvases out.write() received, in order
    readLog,          \* the frames cap.read() returned, in order
    width, height, fps, frame_count,
    new_width, new_height, h_padding, v_padding,
    processed_frames,
    printed,          \* what the run printed
    raised            \* the exception that ended the run, or None

cvars == <<pc, openable, srcWidth, srcHeight, srcFps, srcCount, source, pos,
           capReleases, outOpened, outDeclared, outReleases, written, readLog,
           width, height, fps, frame_count, new_width, new_height, h_padding,
           v_padding, processed_frames, printed, raised>>

----------------------------------------------------------------------------
(* convert_to_16_9: the sources a run is given *)

SeqsUpTo(S, n) == UNION {[1..k -> S] : k \in 0..n}

\* short sources of arbitrary frames
ShortSources == SeqsUpTo(0..MaxPattern, MaxFrames)

\* sources long enough for the progress report to be reached
LongSources ==
    {[i \in 1..n |-> i % (MaxPattern + 1)] :
        n \in (ProgressInterval - 1)..(ProgressInterval + LongExtra)}

\* a container may report any frame count: unknown (-1 or 0), right or wrong
ReportedCounts(n) == {-1, 0, n, n + 1}

\* the source dimensions of the pixel-level runs
PixelDims == ((1..MaxW) \X (1..MaxH)) \cup {<<RatioNum * k, RatioDen * k>> : k \in 1..MaxK}

CInit ==
    /\ pc = "start"
    /\ openable \in BOOLEAN
    /\ \E d \in PixelDims :
          LET w == d[1]
              h == d[2]
          IN
          /\ srcWidth = w
          /\ srcHeight = h
          /\ source \in IF w = 1 /\ h = 1
                        THEN ShortSources \cup LongSources
                        ELSE ShortSources
    /\ srcFps = 30
    /\ srcCount \in ReportedCounts(Len(source))
    /\ pos = 0
    /\ capReleases = 0
    /\ outOpened = FALSE
    /\ outDeclared = <<>>
    /\ outReleases = 0
    /\ written = <<>>
    /\ readLog = <<>>
    /\ width = 0 /\ height = 0 /\ fps = 0 /\ frame_count = 0
    /\ new_width = 0 /\ new_height = 0 /\ h_padding = 0 /\ v_padding = 0
    /\ processed_frames = 0
    /\ printed = <<>>
    /\ raised = None

\* what no step of the run changes
UNCHANGED_source == UNCHANGED <<openable, srcWidth, srcHeight, srcFps, srcCount, source>>

\* a plausible slip: the writer constructed before the open check
OpenFailsSinkFirst ==
    /\ pc = "start"
    /\ ~openable
    /\ outOpened' = TRUE
    /\ outDeclared' = <<0, 0, 0>>
    /\ printed' = Append(printed, <<"error_open">>)
    /\ pc' = "returned"
    /\ UNCHANGED_source
    /\ UNCHANGED <<pos, capReleases, outReleases,
                   written, readLog, width, height, fps, frame_count,
                   new_width, new_height, h_padding, v_padding,
                   processed_frames, raised>>

\* lines 15-18: the source cannot be opened
OpenFails ==
    /\ pc = "start"
    /\ ~openable
    /\ printed' = Append(printed, <<"error_open">>)
    /\ pc' = "returned"
    /\ UNCHANGED_source
    /\ UNCHANGED <<pos, capReleases, outOpened, outDeclared, outReleases,
                   written, readLog, width, height, fps, frame_count,
                   new_width, new_height, h_padding, v_padding,
                   processed_frames, raised>>

\* lines 15-53: the source opens; properties read, dimensions computed,
\* writer constructed, banner printed
Setup ==
    /\ pc = "start"
    /\ openable
    /\ LET d == Dimensions(srcWidth, srcHeight) IN
          /\ width' = srcWidth
          /\ height' = srcHeight
          /\ fps' = srcFps
          /\ frame_count' = srcCount
          /\ new_width' = d.new_width
          /\ new_height' = d.new_height
          /\ h_padding' = d.h_padding
          /\ v_padding' = d.v_padding
          /\ outOpened' = TRUE
          /\ outDeclared' = <<d.new_width, d.new_height, srcFps>>
          /\ IF d.new_height = 0
             THEN \* line 51: new_width/new_height
                  /\ printed' = printed \o <<(<<"converting">>),
                                             <<"original", srcWidth, srcHeight>>>>
                  /\ raised' = "ZeroDivisionError"
                  /\ pc' = "raised"
             ELSE /\ printed' = printed \o <<(<<"converting">>),
                                             <<"original", srcWidth, srcHeight>>,
                                             <<"new", d.new_width, d.new_height>>>>
                  /\ raised' = raised
                  /\ pc' = "loop"
    /\ processed_frames' = 0
    /\ UNCHANGED_source
    /\ UNCHANGED <<pos, capReleases, outReleases, written, readLog>>

\* lines 57-59: cap.read() reports the end of the stream
ReadEnd ==
    /\ pc = "loop"
    /\ pos = Len(source)
    /\ pc' = "release"
    /\ UNCHANGED_source
    /\ UNCHANGED <<pos, capReleases, outOpened, outDeclared, outReleases,
                   written, readLog, width, height, fps, frame_count,
                   new_width, new_height, h_padding, v_padding,
                   processed_frames, printed, raised>>

\* lines 72-74 raise ZeroDivisionError when a report is due and frame_count is 0
ProgressRaises(n, fc) == n % ProgressInterval = 0 /\ fc = 0

\* lines 57-74: one frame read, composited, written and counted
ProcessFrame ==
    /\ pc = "loop"
    /\ pos < Len(source)
    /\ LET frame == FramePixels(source[pos + 1], srcWidth, srcHeight)
           n == processed_frames + 1
       IN  /\ pos' = pos + 1
           /\ readLog' = Append(readLog, frame)
           /\ IF ~Assignable(new_height, new_width, v_padding, h_padding,
                             height, width)
              THEN /\ raised' = "ValueError"
                   /\ pc' = "raised"
                   /\ UNCHANGED <<written, processed_frames, printed>>
              ELSE /\ written' = SinkWrite(written,
                                    Composite(frame, new_height, new_width,
                                              v_padding, h_padding, height, width))
                   /\ processed_frames' = n
                   /\ IF ProgressRaises(n, frame_count)
                      THEN /\ raised' = "ZeroDivisionError"
                           /\ pc' = "raised"
                           /\ UNCHANGED printed
                      ELSE /\ printed' = IF n % ProgressInterval = 0
                                         THEN Append(printed, <<"progress", n, frame_count>>)
                                         ELSE printed
                           /\ UNCHANGED <<raised, pc>>
    /\ UNCHANGED_source
    /\ UNCHANGED <<capReleases, outOpened, outDeclared, outReleases,
                   width, height, fps, frame_count,
                   new_width, new_height, h_padding, v_padding>>

\* a plausible slip: the capture released twice, the writer never
ReleaseSkewed ==
    /\ pc = "release"
    /\ capReleases' = capReleases + 2
    /\ outReleases' = outReleases
    /\ printed' = Append(printed, <<"complete">>)
    /\ pc' = "returned"
    /\ UNCHANGED_source
    /\ UNCHANGED <<pos, outOpened, outDeclared, written, readLog,
                   width, height, fps, frame_count,
                   new_width, new_height, h_padding, v_padding,
                   processed_frames, raised>>

\* lines 77-79: both resources released, completion printed
Release ==
    /\ pc = "release"
    /\ capReleases' = capReleases + 1
    /\ outReleases' = outReleases + 1
    /\ printed' = Append(printed, <<"complete">>)
    /\ pc' = "returned"
    /\ UNCHANGED_source
    /\ UNCHANGED <<pos, outOpened, outDeclared, written, readLog,
                   width, height, fps, frame_count,
                   new_width, new_height, h_padding, v_padding,
                   processed_frames, raised>>

----------------------------------------------------------------------------
(* convert_to_16_9: the dimension rule applied to arbitrary dimensions *)

VARIABLES
    in_width, in_height,   \* the dimensions the rule is applied to
    dim                    \* its result, or NoneDict before it is applied

dvars == <<in_width, in_height, dim>>

\* the scenarios of the specification, beyond the enumeration bound
NamedDims == {<<640, 480>>, <<1000, 1000>>, <<1920, 1080>>}

DInit ==
    /\ \E d \in ((1..MaxDim) \X (1..MaxDim)) \cup NamedDims :
          /\ in_width = d[1]
          /\ in_height = d[2]
    /\ dim = NoneDict

\* lines 27-42 applied to in_width x in_height
ComputeDimensions ==
    /\ dim = NoneDict
    /\ dim' = Dimensions(in_width, in_height)
    /\ UNCHANGED <<in_width, in_height>>

----------------------------------------------------------------------------
(* download_video *)

\* os.getcwd()
Cwd == "/cwd"

\* os.path.join for a relative, non-empty second component
PathJoin(dir, name) == dir \o "/" \o name

\* get_browser_cookie_path(), lines 15-23
get_browser_cookie_path(system) ==
    IF system = "Windows" THEN "chrome"
    ELSE IF system = "Darwin" THEN "safari"
    ELSE "chrome"

\* the exceptions the collaborators raise; KeyboardInterrupt derives from
\* BaseException only, the others from Exception
ExceptionKinds == {"OSError", "DownloadError", "TypeError", "AttributeError"}
BaseOnlyKinds == {"KeyboardInterrupt"}

\* a plausible slip: a handler for the downloader's own error class only
CaughtDownloadErrorOnly(kind) == kind = "DownloadError"

\* line 109: except Exception
Caught(kind) == kind \in ExceptionKinds

\* the formats an info dictionary may list: f.get('vcodec'), f.get('height', 0),
\* f.get('filesize', 0), where a key may be present with the value None
Formats == [vcodec : {"none", "avc1"}, height : {NoneInt, 720}, filesize : {NoneInt, 5000}]

\* what extract_info may return
Infos ==
    {NoneDict} \cup
    [title : {None, "T"}, duration : {NoneInt, 125}, formats : SeqsUpTo(Formats, MaxFormats)]

\* lines 81-84: the key max() orders the formats by
FormatKey(f) == <<f.height, f.filesize>>

\* tuple comparison a > b compares the first components that differ;
\* ordering None against an integer raises TypeError
FirstDiff(a, b) == IF a[1] # b[1] THEN 1 ELSE IF a[2] # b[2] THEN 2 ELSE 0
GtRaises(a, b) ==
    LET i == FirstDiff(a, b) IN i # 0 /\ (a[i] = NoneInt \/ b[i] = NoneInt)
Gt(a, b) ==
    LET i == FirstDiff(a, b) IN i # 0 /\ a[i] > b[i]

\* lines 79-86: max() over the formats that carry video; "raised" when a
\* comparison raises, NoneDict when there is no such format
VideoFormats(formats) == SelectSeq(formats, LAMBDA f : f.vcodec # "none")
Raised == [raised |-> TRUE]
RECURSIVE MaxScan(_, _, _)
MaxScan(fs, i, best) ==
    IF i > Len(fs) THEN best
    ELSE IF GtRaises(FormatKey(fs[i]), FormatKey(best)) THEN Raised
    ELSE MaxScan(fs, i + 1, IF Gt(FormatKey(fs[i]), FormatKey(best)) THEN fs[i] ELSE best)
BestVideo(formats) ==
    LET fs == VideoFormats(formats) IN
    IF Len(fs) = 0 THEN NoneDict ELSE MaxScan(fs, 2, fs[1])

\* lines 74-97: the exception the detail printing raises for info, or None
DetailsRaise(i) ==
    IF i = NoneDict THEN "AttributeError"
    ELSE IF BestVideo(i.formats) = Raised THEN "TypeError"
    ELSE IF i.duration = NoneInt THEN "TypeError"
    ELSE None

\* line 74: info.get('title', 'video')
TitleOf(i) == IF i.title = None THEN "video" ELSE i.title

VARIABLES
    l_pc,             \* position in download_video
    arg_output_path,  \* the output_path argument, None by default
    arg_use_cookies,  \* the use_cookies argument
    arg_browser,      \* the browser argument, None by default
    system,           \* platform.system()
    output_path,      \* the local output_path
    cookies_from,     \* ydl_opts['cookiesfrombrowser'], None when unset
    info,             \* what extract_info returned
    steps_done,       \* the steps that completed without raising
    download_started, \* whether ydl.download was called
    l_printed,        \* what the call printed
    returned,         \* the value returned, None before the return
    l_raised,         \* the exception raised inside the try block, or None
    propagated        \* the exception that left the function, or None

lvars == <<l_pc, arg_output_path, arg_use_cookies, arg_browser, system,
           output_path, cookies_from, info, steps_done, download_started,
           l_printed, returned, l_raised, propagated>>

LInit ==
    /\ l_pc = "prepare"
    /\ arg_output_path \in {None, "out"}
    /\ arg_use_cookies \in BOOLEAN
    /\ arg_browser \in {None, "firefox"}
    /\ system \in {"Windows", "Darwin", "Linux"}
    /\ output_path = None
    /\ cookies_from = None
    /\ info = NoneDict
    /\ steps_done = {}
    /\ download_started = FALSE
    /\ l_printed = <<>>
    /\ returned = None
    /\ l_raised = None
    /\ propagated = None

\* lines 109-123: an exception raised inside the try block
Handle(kind) ==
    /\ l_raised' = kind
    /\ IF Caught(kind)
       THEN /\ l_printed' = l_printed \o <<"error", "troubleshooting">>
            /\ returned' = ""
            /\ propagated' = None
            /\ l_pc' = "returned"
       ELSE /\ l_printed' = l_printed
            /\ returned' = returned
            /\ propagated' = kind
            /\ l_pc' = "propagated"

UNCHANGED_args == UNCHANGED <<arg_output_path, arg_use_cookies, arg_browser, system>>

\* lines 36-68: default directory, os.makedirs, options, cookies
Prepare ==
    /\ l_pc = "prepare"
    /\ output_path' = IF arg_output_path = None THEN Cwd ELSE arg_output_path
    /\ \E outcome \in {"ok", "OSError", "KeyboardInterrupt"} :
          IF outcome = "ok"
          THEN /\ cookies_from' = IF arg_use_cookies
                                  THEN IF arg_browser = None
                                       THEN get_browser_cookie_path(system)
                                       ELSE arg_browser
                                  ELSE None
               /\ l_printed' = (IF arg_use_cookies THEN <<"using_cookies">> ELSE <<>>)
                               \o <<"fetching">>
               /\ steps_done' = steps_done \cup {"makedirs"}
               /\ l_pc' = "extract"
               /\ UNCHANGED <<returned, l_raised, propagated>>
          ELSE /\ Handle(outcome)
               /\ UNCHANGED <<cookies_from, steps_done>>
    /\ UNCHANGED <<info, download_started>>
    /\ UNCHANGED_args

\* lines 71-73: YoutubeDL constructed, extract_info(url, download=False)
Extract ==
    /\ l_pc = "extract"
    /\ \/ \E i \in Infos :
             /\ info' = i
             /\ steps_done' = steps_done \cup {"extract"}
             /\ l_pc' = "details"
             /\ UNCHANGED <<l_printed, returned, l_raised, propagated>>
       \/ \E kind \in {"DownloadError", "KeyboardInterrupt"} :
             /\ Handle(kind)
             /\ UNCHANGED <<info, steps_done>>
    /\ UNCHANGED <<output_path, cookies_from, download_started>>
    /\ UNCHANGED_args

\* lines 74-97: title, duration, best format, details printed
Details ==
    /\ l_pc = "details"
    /\ IF DetailsRaise(info) = None
       THEN /\ l_printed' = l_printed \o <<"details", "starting">>
            /\ steps_done' = steps_done \cup {"details"}
            /\ l_pc' = "download"
            /\ UNCHANGED <<returned, l_raised, propagated>>
       ELSE /\ Handle(DetailsRaise(info))
            /\ UNCHANGED steps_done
    /\ UNCHANGED <<output_path, cookies_from, info, download_started>>
    /\ UNCHANGED_args

\* lines 99-107: ydl.download([url]), the output file name returned
Download ==
    /\ l_pc = "download"
    /\ download_started' = TRUE
    /\ \E outcome \in {"ok", "DownloadError", "KeyboardInterrupt"} :
          IF outcome = "ok"
          THEN /\ steps_done' = steps_done \cup {"download"}
               /\ l_printed' = l_printed \o <<"completed", "saved_to">>
               /\ returned' = PathJoin(output_path, TitleOf(info) \o ".mp4")
               /\ l_pc' = "returned"
               /\ UNCHANGED <<l_raised, propagated>>
          ELSE /\ Handle(outcome)
               /\ UNCHANGED steps_done
    /\ UNCHANGED <<output_path, cookies_from, info>>
    /\ UNCHANGED_args

----------------------------------------------------------------------------
(* The specifications *)

vars == <<cvars, dvars, lvars>>

\* the parts of the state a specification does not use stay idle
CIdle ==
    /\ pc = "idle" /\ openable = FALSE
    /\ srcWidth = 0 /\ srcHeight = 0 /\ srcFps = 0 /\ srcCount = 0
    /\ source = <<>> /\ pos = 0 /\ capReleases = 0
    /\ outOpened = FALSE /\ outDeclared = <<>> /\ outReleases = 0
    /\ written = <<>> /\ readLog = <<>>
    /\ width = 0 /\ height = 0 /\ fps = 0 /\ frame_count = 0
    /\ new_width = 0 /\ new_height = 0 /\ h_padding = 0 /\ v_padding = 0
    /\ processed_frames = 0 /\ printed = <<>> /\ raised = None
DIdle == in_width = 0 /\ in_height = 0 /\ dim = [idle |-> TRUE]
LIdle ==
    /\ l_pc = "idle"
    /\ arg_output_path = None /\ arg_use_cookies = FALSE /\ arg_browser = None
    /\ system = "Linux" /\ output_path = None /\ cookies_from = None
    /\ info = NoneDict /\ steps_done = {} /\ download_started = FALSE
    /\ l_printed = <<>> /\ returned = None /\ l_raised = None
    /\ propagated = None

\* a run of convert_to_16_9
Init == CInit /\ DIdle /\ LIdle
Next ==
    \/ OpenFails /\ UNCHANGED <<dvars, lvars>>
    \/ Setup /\ UNCHANGED <<dvars, lvars>>
    \/ ReadEnd /\ UNCHANGED <<dvars, lvars>>
    \/ ProcessFrame /\ UNCHANGED <<dvars, lvars>>
    \/ Release /\ UNCHANGED <<dvars, lvars>>
Spec == Init /\ [][Next]_vars

\* the dimension rule
InitDim == DInit /\ CIdle /\ LIdle
NextDim == ComputeDimensions /\ UNCHANGED <<cvars, lvars>>
SpecDim == InitDim /\ [][NextDim]_vars

\* a call of download_video
InitDl == LInit /\ CIdle /\ DIdle
NextDl ==
    \/ Prepare /\ UNCHANGED <<cvars, dvars>>
    \/ Extract /\ UNCHANGED <<cvars, dvars>>
    \/ Details /\ UNCHANGED <<cvars, dvars>>
    \/ Download /\ UNCHANGED <<cvars, dvars>>
SpecDl == InitDl /\ [][NextDl]_vars

----------------------------------------------------------------------------
(* Properties of the dimension rule (SpecDim) *)

DimComputed == dim # NoneDict /\ dim # [idle |-> TRUE]
Abs(n) == IF n < 0 THEN -n ELSE n

\* C1: for positive width and height the rule only adds bars on one axis and
\* never crops: a source narrower than 16:9 keeps its height, gets a width no
\* smaller, v_padding 0 and h_padding >= 0; any other source keeps its width,
\* gets a height no smaller, h_padding 0 and v_padding >= 0; so at most one
\* padding is nonzero and neither is negative.
C1_OnlyAddsBars ==
    DimComputed =>
        /\ IF RatioDen * in_width < RatioNum * in_height
           THEN /\ dim.new_height = in_height
                /\ dim.new_width >= in_width
                /\ dim.v_padding = 0
                /\ dim.h_padding >= 0
           ELSE /\ dim.new_width = in_width
                /\ dim.new_height >= in_height
                /\ dim.h_padding = 0
                /\ dim.v_padding >= 0
        /\ dim.h_padding = 0 \/ dim.v_padding = 0
        /\ dim.h_padding >= 0 /\ dim.v_padding >= 0

\* a narrow source that received side bars
C1_Witness ==
    /\ DimComputed
    /\ in_width = 640 /\ in_height = 480
    /\ dim.new_width > in_width /\ dim.h_padding > 0 /\ dim.v_padding = 0

\* C6 as stated: the extended axis is the exact 16:9 value rounded to the
\* nearest integer, the padding half the difference rounded down; 640x480
\* gives new_width 853 and h_padding 106, 1000x1000 gives 1778 and 389.
C6_RoundsToNearest ==
    DimComputed =>
        /\ IF RatioDen * in_width < RatioNum * in_height
           THEN /\ 2 * Abs(RatioDen * dim.new_width - RatioNum * in_height) <= RatioDen
                /\ dim.h_padding = (dim.new_width - in_width) \div 2
           ELSE /\ 2 * Abs(RatioNum * dim.new_height - RatioDen * in_width) <= RatioNum
                /\ dim.v_padding = (dim.new_height - in_height) \div 2
        /\ (in_width = 640 /\ in_height = 480)
              => dim.new_width = 853 /\ dim.h_padding = 106
        /\ (in_width = 1000 /\ in_height = 1000)
              => dim.new_width = 1778 /\ dim.h_padding = 389

\* C6 amended: the extended axis is the exact 16:9 value truncated to an
\* integer (rounded down), new_width = floor(height * 16 / 9) for a narrow
\* source and new_height = floor(width * 9 / 16) otherwise, the padding half
\* the difference rounded down; 640x480 gives new_width 853 and h_padding
\* 106, 1000x1000 gives new_width 1777 and h_padding 388.
C6_Truncates ==
    DimComputed =>
        /\ IF RatioDen * in_width < RatioNum * in_height
           THEN /\ RatioDen * dim.new_width <= RatioNum * in_height
                /\ RatioNum * in_height < RatioDen * (dim.new_width + 1)
                /\ dim.new_height = in_height
                /\ 2 * dim.h_padding <= dim.new_width - in_width
                /\ dim.new_width - in_width < 2 * (dim.h_padding + 1)
           ELSE /\ RatioNum * dim.new_height <= RatioDen * in_width
                /\ RatioDen * in_width < RatioNum * (dim.new_height + 1)
                /\ dim.new_width = in_width
                /\ 2 * dim.v_padding <= dim.new_height - in_height
                /\ dim.new_height - in_height < 2 * (dim.v_padding + 1)
        /\ (in_width = 640 /\ in_height = 480)
              => dim.new_width = 853 /\ dim.h_padding = 106
        /\ (in_width = 1000 /\ in_height = 1000)
              => dim.new_width = 1777 /\ dim.h_padding = 388

\* the square source of the scenario, whose exact width 1777.78 is truncated
C6_Witness ==
    /\ DimComputed
    /\ in_width = 1000 /\ in_height = 1000
    /\ dim.new_width = 1777 /\ dim.h_padding = 388

\* C9: the output has the 16:9 ratio up to the integer rounding of the one
\* extended axis: it differs from the exact value (height * 16/9, or
\* width * 9/16) by less than one pixel, and when the exact value is an
\* integer the output ratio is exactly 16:9.
C9_RatioWithinOnePixel ==
    DimComputed =>
        IF RatioDen * in_width < RatioNum * in_height
        THEN /\ Abs(RatioDen * dim.new_width - RatioNum * in_height) < RatioDen
             /\ (RatioNum * in_height) % RatioDen = 0
                   => RatioDen * dim.new_width = RatioNum * dim.new_height
        ELSE /\ Abs(RatioNum * dim.new_height - RatioDen * in_width) < RatioNum
             /\ (RatioDen * in_width) % RatioNum = 0
                   => RatioDen * dim.new_width = RatioNum * dim.new_height

\* a wide source whose exact height is an integer and which received bars
C9_Witness ==
    /\ DimComputed
    /\ RatioDen * in_width >= RatioNum * in_height
    /\ (RatioDen * in_width) % RatioNum = 0
    /\ dim.new_height > in_height
    /\ RatioDen * dim.new_width = RatioNum * dim.new_height

----------------------------------------------------------------------------
(* Properties of a conversion run (Spec) *)

Ran == pc # "idle"
Ended == pc \in {"returned", "raised"}

\* C2 as stated: the loop ends exactly at the end of the stream, and whatever
\* frame count the source reported (0 included) the run ends normally: no
\* error, and an output neither truncated nor extended.
C2_EndsAtEndOfStream ==
    /\ raised = None
    /\ (pc \in {"release", "returned"} /\ openable) =>
          /\ pos = Len(source)
          /\ Len(written) = Len(source)

\* C3: at every point the frames written are the composited frames read so
\* far, in order, none dropped, repeated or reordered; at the end of the run
\* as many frames were emitted as were read, whatever count was reported.
C3_WrittenFollowsRead ==
    Ran =>
        /\ Len(readLog) = pos
        /\ \A i \in 1..Len(readLog) :
              readLog[i] = FramePixels(source[i], srcWidth, srcHeight)
        /\ Len(written) = Len(readLog)
        /\ \A i \in 1..Len(written) :
              \A r \in 0..(height - 1) : \A c \in 0..(width - 1) :
                  written[i][r + v_padding][c + h_padding] = readLog[i][r][c]
        /\ Ended => Len(written) = pos

\* a finished run of two different frames whose reported count was wrong
C3_Witness ==
    /\ pc = "returned"
    /\ Len(written) = 2 /\ Len(readLog) = 2
    /\ readLog[1] # readLog[2]
    /\ written[1] # written[2]
    /\ frame_count # 2

\* C4 as stated: on normal completion the source and the sink have each been
\* released once, and on the open-failure path the source has been released
\* once; nothing is released twice or left unreleased.
C4_ReleasedOnEveryReturn ==
    pc = "returned" =>
        /\ capReleases = 1
        /\ outReleases = (IF outOpened THEN 1 ELSE 0)

\* C4 amended: on normal completion the source and the sink have each been
\* released exactly once; on the open-failure path nothing is released (the
\* source never opened and the sink was never constructed); no resource is
\* ever released twice.
C4_ReleasedOnCompletion ==
    Ran =>
        /\ capReleases <= 1 /\ outReleases <= 1
        /\ (pc = "returned" /\ openable) =>
              outOpened /\ capReleases = 1 /\ outReleases = 1
        /\ (pc = "returned" /\ ~openable) =>
              ~outOpened /\ capReleases = 0 /\ outReleases = 0
        /\ pc \notin {"returned"} => capReleases = 0 /\ outReleases = 0

\* a run that wrote frames and completed
C4_Witness ==
    /\ pc = "returned" /\ openable
    /\ Len(written) > 0
    /\ capReleases = 1 /\ outReleases = 1

\* C5: a source that cannot be opened is reported and the function returns
\* with no sink opened, no frame read and no frame written; the sink is
\* opened only after the open check succeeded.
C5_OpenFailureProducesNothing ==
    Ran =>
        /\ outOpened => openable
        /\ ~openable =>
              /\ ~outOpened /\ outDeclared = <<>>
              /\ pos = 0 /\ readLog = <<>> /\ written = <<>>
              /\ raised = None
              /\ pc \in {"start", "returned"}
              /\ pc = "returned" => printed = << <<"error_open">> >>

\* the return of the open-failure path
C5_Witness ==
    /\ pc = "returned" /\ ~openable
    /\ printed = << <<"error_open">> >>
    /\ ~outOpened

\* C7: a source of exactly 16:9 (16k x 9k) gets zero padding on both axes and
\* output dimensions equal to its own, and every emitted frame is identical to
\* the frame read, so the compositor leaves its own 16:9 output unchanged.
C7_IdempotentOn16by9 ==
    (outOpened /\ RatioDen * srcWidth = RatioNum * srcHeight) =>
        /\ h_padding = 0 /\ v_padding = 0
        /\ new_width = srcWidth /\ new_height = srcHeight
        /\ outDeclared = <<srcWidth, srcHeight, srcFps>>
        /\ Len(written) = Len(readLog)
        /\ \A i \in 1..Len(written) : written[i] = readLog[i]

\* a finished run over a 32x18 source of two frames
C7_Witness ==
    /\ pc = "returned"
    /\ srcWidth = 2 * RatioNum /\ srcHeight = 2 * RatioDen
    /\ Len(written) = 2
    /\ written = readLog

\* C8: every emitted frame has the size declared to the sink, holds the
\* unmodified source frame in rows v_padding..v_padding+height-1 and columns
\* h_padding..h_padding+width-1 and black everywhere else; the region lies
\* inside the canvas and is centred: the bar after the content equals the bar
\* before it or is exactly one pixel larger.
C8_CentredOnBlack ==
    outOpened =>
        /\ outDeclared = <<new_width, new_height, fps>>
        /\ v_padding >= 0 /\ v_padding + height <= new_height
        /\ h_padding >= 0 /\ h_padding + width <= new_width
        /\ (new_width - width - h_padding) - h_padding \in {0, 1}
        /\ (new_height - height - v_padding) - v_padding \in {0, 1}
        /\ Len(written) <= Len(readLog)
        /\ \A i \in 1..Len(written) :
              /\ DOMAIN written[i] = 0..(outDeclared[2] - 1)
              /\ \A r \in DOMAIN written[i] :
                    /\ DOMAIN written[i][r] = 0..(outDeclared[1] - 1)
                    /\ \A c \in DOMAIN written[i][r] :
                          written[i][r][c] =
                             IF /\ r >= v_padding /\ r < v_padding + height
                                /\ c >= h_padding /\ c < h_padding + width
                             THEN readLog[i][r - v_padding][c - h_padding]
                             ELSE Black

\* a frame emitted with side bars of unequal width
C8_Witness ==
    /\ Len(written) > 0
    /\ h_padding > 0
    /\ (new_width - width) % 2 = 1
    /\ written[1][0][0] = Black
    /\ written[1][0][h_padding] # Black

----------------------------------------------------------------------------
(* Properties of a download (SpecDl) *)

Troubleshot ==
    /\ Len(l_printed) >= 2
    /\ l_printed[Len(l_printed)] = "troubleshooting"

\* C10 as stated: download_video never propagates an exception; whenever a
\* step raises it prints the troubleshooting text and returns the empty
\* string; a non-empty path is returned only after extraction, detail
\* printing and the download all completed; the download is never started
\* after an earlier step failed.
C10_NeverPropagates ==
    /\ propagated = None
    /\ l_pc # "propagated"
    /\ l_raised # None => l_pc = "returned" /\ returned = "" /\ Troubleshot
    /\ l_pc = "returned" =>
          \/ returned = "" /\ Troubleshot
          \/ /\ returned \notin {"", None}
             /\ {"extract", "details", "download"} \subseteq steps_done
    /\ download_started => {"makedirs", "extract", "details"} \subseteq steps_done

\* C10 amended: download_video never propagates an exception derived from
\* Exception: whenever a step raises one it prints the troubleshooting text
\* and returns the empty string.  An exception outside Exception
\* (KeyboardInterrupt) raised by a step leaves the function, with no
\* troubleshooting text and no return value.  A non-empty path is returned
\* only after extraction, detail printing and the download all completed,
\* and the download is never started after an earlier step failed.
C10_CatchesExceptionOnly ==
    l_pc # "idle" =>
        /\ propagated \in {None, "KeyboardInterrupt"}
        /\ l_raised = "KeyboardInterrupt" => propagated = "KeyboardInterrupt"
        /\ l_raised \notin {None, "KeyboardInterrupt"} =>
              l_pc = "returned" /\ returned = "" /\ Troubleshot
        /\ l_raised = None => propagated = None /\ returned # "" /\ ~Troubleshot
        /\ (l_pc = "propagated") = (propagated # None)
        /\ l_pc = "propagated" => returned = None /\ ~Troubleshot
        /\ l_pc = "returned" =>
              /\ propagated = None
              /\ \/ /\ returned = "" /\ Troubleshot
                    /\ "download" \notin steps_done
                 \/ /\ returned \notin {"", None} /\ ~Troubleshot
                    /\ {"extract", "details", "download"} \subseteq steps_done
        /\ download_started => {"makedirs", "extract", "details"} \subseteq steps_done

\* the detail printing raised TypeError on a video without a duration: the
\* troubleshooting text was printed, "" returned, the download never started
C10_Witness ==
    /\ l_pc = "returned"
    /\ returned = "" /\ Troubleshot
    /\ l_raised = "TypeError"
    /\ "extract" \in steps_done /\ "details" \notin steps_done
    /\ info # NoneDict /\ info.duration = NoneInt
    /\ ~download_started

====
